---- MODULE Spec2Model ----
(***************************************************************************)
(* The chat page of src/app/page.tsx as a state machine.                   *)
(*                                                                         *)
(* The React state of Chat (messages, isTyping, error, currentResponse),   *)
(* the localStorage key 'conversationHistory' and the pending calls of     *)
(* the async handler handleSendMessage are the state.  An async handler    *)
(* is cut at its awaits: the synchronous part up to the first await is     *)
(* one action, every chunk of the stream is one action, the settling of    *)
(* the promise of streamResponse is one action and the continuation of     *)
(* handleSendMessage after its await (try-rest or catch, then finally) is  *)
(* one action.  A settled promise runs its continuation in a microtask,    *)
(* before the browser dispatches the next user event.                      *)
(*                                                                         *)
(* A text is a sequence of units.  A unit is one character of user or      *)
(* model text, or one literal fragment of the program (an error message,   *)
(* the [INST] framing), which is kept whole.                                *)
(***************************************************************************)
EXTENDS Integers, Sequences, FiniteSets, TLC

\* src/app/page.tsx:16-17
MAX_HISTORY_LENGTH == 12
MAX_MESSAGE_LENGTH == 500

\* Bounds of the exploration.
\* MaxSends / MaxChunks: accepted submissions and stream chunks of a session
\* explored with the full variety of inputs (Spec).
MaxSends == 2
MaxChunks == 2
\* MaxLongSends / MaxLongChunks: the same for the long sessions with one
\* accepted text (SpecLong), long enough to pass the history window.
MaxLongSends == 7
MaxLongChunks == 1

VARIABLES
    messages,         \* useState<Message[]>: the transcript
    isTyping,         \* useState(false): the busy flag
    error,            \* useState<string | null>: {} is null, {t} the string t
    currentResponse,  \* useState(''): the live buffer
    store,            \* localStorage['conversationHistory']: {} absent, {s} the string s
    apiKey,           \* whether process.env.HUGGINGFACE_API_KEY is set
    mounted,          \* whether the mount effect (loadConversationHistory) has run
    calls,            \* the pending invocations of handleSendMessage past validation; of each:
                      \* where it is (pc), its arguments, the request, the deltas received
                      \* (history), the local fullResponse, and how streamResponse settled
    nSends,           \* history: accepted submissions so far
    nChunks,          \* history: stream chunks received so far
    nAssist,          \* history: assistant turns appended by handleSendMessage so far
    nRequests,        \* history: requests handed to client.chatCompletionStream so far
    turns,            \* history: every turn put into the transcript since it was last emptied
    lastOp,           \* history: the handler step that produced this state
    saved,            \* history: what the last step's localStorage.setItem did
    writeFailed,      \* history: whether a localStorage.setItem has thrown in this session
    probe             \* one application of validateMessage to an input (SpecValidate)

vars == <<messages, isTyping, error, currentResponse, store, apiKey, mounted, calls,
          nSends, nChunks, nAssist, nRequests, turns, lastOp, saved, writeFailed, probe>>

-----------------------------------------------------------------------------
\* Texts

Whitespace == {" ", "\n", "\t"}

Rep(u, n) == [i \in 1..n |-> u]

RECURSIVE trimStart(_)
trimStart(t) ==
    IF t # <<>> /\ Head(t) \in Whitespace THEN trimStart(Tail(t)) ELSE t

RECURSIVE trimEnd(_)
trimEnd(t) ==
    IF t # <<>> /\ t[Len(t)] \in Whitespace THEN trimEnd(SubSeq(t, 1, Len(t) - 1)) ELSE t

\* String.prototype.trim
trim(t) == trimEnd(trimStart(t))

\* Array.prototype.slice(-n)
sliceLast(s, n) == IF Len(s) <= n THEN s ELSE SubSeq(s, Len(s) - n + 1, Len(s))

Message(role, content) == [role |-> role, content |-> content]

SYSTEM_PROMPT == <<"Voce e um assistente de IA ...">>

ErrBusy == <<"Aguarde a resposta anterior ser concluida">>
ErrEmpty == <<"A mensagem nao pode estar vazia">>
ErrTooLong == <<"A mensagem deve ter no maximo ", "MAX_MESSAGE_LENGTH", " caracteres">>
ErrNoConfig == <<"Configuracoes da API nao encontradas">>
ErrApi == <<"Erro ao processar resposta da API">>

ApologyHead == "Desculpe, ocorreu um erro: "
ApologyTail == ". Por favor, tente novamente."

\* The content of the error turn of handleSendMessage's catch.
errorContent(errorMessage) == <<ApologyHead>> \o errorMessage \o <<ApologyTail>>

-----------------------------------------------------------------------------
\* JSON texts, as sequences of lexical tokens

Token(t, role, content) == [t |-> t, role |-> role, content |-> content]
LBracket == Token("[", "", <<>>)
RBracket == Token("]", "", <<>>)
Comma == Token(",", "", <<>>)
Num == Token("num", "", <<>>)
Obj(m) == Token("obj", m.role, m.content)

RECURSIVE Items(_)
Items(history) ==
    IF history = <<>> THEN <<>>
    ELSE IF Len(history) = 1 THEN <<Obj(history[1])>>
    ELSE <<Obj(history[1]), Comma>> \o Items(Tail(history))

\* JSON.stringify of an array of {role, content} objects
JSONstringify(history) == <<LBracket>> \o Items(history) \o <<RBracket>>

\* JSON.parse of a token text: a scalar, an object, or an array of objects.
\* ok is FALSE where JSON.parse throws a SyntaxError.
JSONparse(s) ==
    LET inner == SubSeq(s, 2, Len(s) - 1)
        wellFormed ==
            \/ inner = <<>>
            \/ /\ Len(inner) % 2 = 1
               /\ \A i \in 1..Len(inner) :
                    IF i % 2 = 1 THEN inner[i].t = "obj" ELSE inner[i] = Comma
    IN  IF Len(s) = 1 /\ s[1].t \in {"obj", "num"}
        THEN [ok |-> TRUE, isArray |-> FALSE, value |-> <<>>]
        ELSE IF Len(s) >= 2 /\ s[1] = LBracket /\ s[Len(s)] = RBracket /\ wellFormed
        THEN [ok |-> TRUE, isArray |-> TRUE,
              value |-> [i \in 1..((Len(inner) + 1) \div 2) |->
                            Message(inner[2 * i - 1].role, inner[2 * i - 1].content)]]
        ELSE [ok |-> FALSE, isArray |-> FALSE, value |-> <<>>]

-----------------------------------------------------------------------------
\* Pure parts of the handlers

\* validateMessage without its isTyping test
validateMessage_NoBusy(message, typing) ==
    IF trim(message) = <<>> THEN [ok |-> FALSE, error |-> ErrEmpty]
    ELSE IF Len(message) > MAX_MESSAGE_LENGTH THEN [ok |-> FALSE, error |-> ErrTooLong]
    ELSE [ok |-> TRUE, error |-> <<>>]

\* validateMessage with >= for > in its length test
validateMessage_OffByOne(message, typing) ==
    IF typing THEN [ok |-> FALSE, error |-> ErrBusy]
    ELSE IF trim(message) = <<>> THEN [ok |-> FALSE, error |-> ErrEmpty]
    ELSE IF Len(message) >= MAX_MESSAGE_LENGTH THEN [ok |-> FALSE, error |-> ErrTooLong]
    ELSE [ok |-> TRUE, error |-> <<>>]

\* validateMessage: [ok, error], error the argument of its setError
validateMessage(message, typing) ==
    IF typing THEN [ok |-> FALSE, error |-> ErrBusy]
    ELSE IF trim(message) = <<>> THEN [ok |-> FALSE, error |-> ErrEmpty]
    ELSE IF Len(message) > MAX_MESSAGE_LENGTH THEN [ok |-> FALSE, error |-> ErrTooLong]
    ELSE [ok |-> TRUE, error |-> <<>>]

\* The [INST] framing of a user text
inst(content) == <<"[INST] ">> \o content \o <<" [/INST]">>

\* formattedMessages with the framing around every prior turn
formattedMessages_WrapsAll(message, history) ==
    <<Message("system", SYSTEM_PROMPT)>>
    \o [i \in 1..Len(history) |-> Message(history[i].role, inst(history[i].content))]
    \o <<Message("user", inst(message))>>

\* formattedMessages of streamResponse
formattedMessages(message, history) ==
    <<Message("system", SYSTEM_PROMPT)>>
    \o [i \in 1..Len(history) |->
            IF history[i].role = "user"
            THEN Message("user", inst(history[i].content))
            ELSE history[i]]
    \o <<Message("user", inst(message))>>

\* The transcript after the assistant turn of the try block
appendAssistant(prevMessages, finalResponse) ==
    sliceLast(Append(prevMessages, Message("assistant", finalResponse)), MAX_HISTORY_LENGTH)

\* The error turn without the apology around the cause
appendError_Raw(prevMessages, errorMessage) ==
    Append(prevMessages, Message("assistant", errorMessage))

\* The transcript after the error turn of the catch block
appendError(prevMessages, errorMessage) ==
    Append(prevMessages, Message("assistant", errorContent(errorMessage)))

-----------------------------------------------------------------------------
\* Inputs

A500 == Rep("a", MAX_MESSAGE_LENGTH)
A501 == Rep("a", MAX_MESSAGE_LENGTH + 1)

\* What the user submits (Spec): blank, short after a blank, too long
Texts == {<<" ">>, <<" ", "a">>, A501}
\* What the user submits in the long sessions (SpecLong)
LongTexts == {<<"a">>, <<" ">>}

\* The content deltas of the stream (Spec)
Deltas == {<<"H", "e", "l">>, <<"l", "o">>, <<" ">>}
LongDeltas == {<<"b">>}

\* A transcript of n turns as an earlier session leaves it in the store
Snapshot(n) ==
    [i \in 1..n |-> IF i % 2 = 1 THEN Message("user", <<"a">>)
                                 ELSE Message("assistant", <<"H", "e", "l">>)]

\* What the key may hold when the session starts
StoredValues ==
    { {},                                                  \* absent
      { <<LBracket, Obj(Message("user", <<"a">>))>> },     \* unparseable
      { <<Num>> },                                         \* parseable, not an array
      { JSONstringify(<<Message("bot", <<"a">>)>>) },      \* an array, a record of another shape
      { JSONstringify(Snapshot(2)) },
      { JSONstringify(Snapshot(MAX_HISTORY_LENGTH)) } }

-----------------------------------------------------------------------------
\* State after construction: the useState initialisers, before the mount effect

InitState ==
    /\ messages = <<>>
    /\ isTyping = FALSE
    /\ error = {}
    /\ currentResponse = <<>>
    /\ mounted = FALSE
    /\ calls = {}
    /\ nSends = 0
    /\ nChunks = 0
    /\ nAssist = 0
    /\ nRequests = 0
    /\ writeFailed = FALSE
    /\ turns = <<>>
    /\ lastOp = "init"
    /\ saved = "none"

NoProbe == [text |-> <<>>, busy |-> FALSE, done |-> FALSE, ok |-> FALSE, error |-> <<>>]

Init ==
    /\ InitState
    /\ probe = NoProbe
    /\ store \in StoredValues
    /\ apiKey \in BOOLEAN

InitLong ==
    /\ InitState
    /\ probe = NoProbe
    /\ store = {}
    /\ apiKey \in BOOLEAN

\* No promise is settled with its continuation still to run: the microtask
\* queue is empty and the browser may dispatch a user or network event.
Quiescent == mounted /\ \A c \in calls : c.pc # "settled"

\* What loadConversationHistory does with the key holding st: whether it calls
\* setMessages, with what, and whether it removes the key.
loadOutcome(st) ==
    IF st = {} \/ st = { <<>> }
    THEN [restore |-> FALSE, value |-> <<>>, remove |-> FALSE]
    ELSE LET parsedHistory == JSONparse(CHOOSE s \in st : TRUE)
         IN  IF ~parsedHistory.ok
             THEN [restore |-> FALSE, value |-> <<>>, remove |-> TRUE]
             ELSE IF parsedHistory.isArray
             THEN [restore |-> TRUE, value |-> parsedHistory.value, remove |-> FALSE]
             ELSE [restore |-> FALSE, value |-> <<>>, remove |-> FALSE]

\* loadConversationHistory, run once by the mount effect
loadConversationHistory ==
    /\ ~mounted
    /\ mounted' = TRUE
    /\ lastOp' = "load"
    /\ saved' = "none"
    /\ UNCHANGED writeFailed
    /\ LET o == loadOutcome(store)
       IN  /\ messages' = IF o.restore THEN o.value ELSE messages
           /\ turns' = IF o.restore THEN o.value ELSE turns
           /\ store' = IF o.remove THEN {} ELSE store
    /\ UNCHANGED <<isTyping, error, currentResponse, apiKey, probe, calls,
                   nSends, nChunks, nAssist, nRequests>>

\* saveConversationHistory whose failed write loses the key
saveConversationHistory_LosesKey(history) ==
    \E quotaExceeded \in BOOLEAN :
        /\ store' = IF quotaExceeded THEN {} ELSE { JSONstringify(history) }
        /\ saved' = IF quotaExceeded THEN "failed" ELSE "ok"
        /\ writeFailed' = (writeFailed \/ quotaExceeded)

\* saveConversationHistory that stores the transcript without its newest turn
saveConversationHistory_Stale(history) ==
    \E quotaExceeded \in BOOLEAN :
        /\ store' = IF quotaExceeded THEN store
                    ELSE { JSONstringify(SubSeq(history, 1, Len(history) - 1)) }
        /\ saved' = IF quotaExceeded THEN "failed" ELSE "ok"
        /\ writeFailed' = (writeFailed \/ quotaExceeded)

\* saveConversationHistory: setItem stores the text, or throws (quota) and is caught
saveConversationHistory(history) ==
    \E quotaExceeded \in BOOLEAN :
        /\ store' = IF quotaExceeded THEN store ELSE { JSONstringify(history) }
        /\ saved' = IF quotaExceeded THEN "failed" ELSE "ok"
        /\ writeFailed' = (writeFailed \/ quotaExceeded)

\* streamResponse that builds and hands over the request before it tests the credential
streamResponse_RequestFirst(id, message, history) ==
    IF ~apiKey
    THEN [id |-> id, pc |-> "settled", message |-> message, history |-> history,
          request |-> formattedMessages(message, history), deltas |-> <<>>,
          fullResponse |-> <<>>, outcome |-> "error", value |-> ErrNoConfig]
    ELSE [id |-> id, pc |-> "streaming", message |-> message, history |-> history,
          request |-> formattedMessages(message, history), deltas |-> <<>>,
          fullResponse |-> <<>>, outcome |-> "pending", value |-> <<>>]

\* The call streamResponse(message, history) up to its first await on the network:
\* rejected at once without the credential, else the request is out.
streamResponse(id, message, history) ==
    IF ~apiKey
    THEN [id |-> id, pc |-> "settled", message |-> message, history |-> history,
          request |-> <<>>, deltas |-> <<>>, fullResponse |-> <<>>,
          outcome |-> "error", value |-> ErrNoConfig]
    ELSE [id |-> id, pc |-> "streaming", message |-> message, history |-> history,
          request |-> formattedMessages(message, history), deltas |-> <<>>,
          fullResponse |-> <<>>, outcome |-> "pending", value |-> <<>>]

\* A rejection that also resets the live buffer
reject_ResetsBuffer(reason) ==
    /\ error' = {reason}
    /\ lastOp' = "reject"
    /\ currentResponse' = <<>>
    /\ UNCHANGED <<messages, isTyping, calls, nSends, nRequests, turns>>

\* handleSendMessage when validateMessage returns false: the reason is shown, return
reject(reason) ==
    /\ error' = {reason}
    /\ lastOp' = "reject"
    /\ UNCHANGED <<messages, isTyping, currentResponse, calls, nSends, nRequests, turns>>

\* handleSendMessage(message), up to its await
handleSendMessage(message) ==
    /\ Quiescent
    /\ saved' = "none"
    /\ UNCHANGED writeFailed
    /\ LET v == validateMessage(message, isTyping)
       IN  IF ~v.ok
           THEN reject(v.error)
           ELSE /\ error' = {}
                /\ messages' = Append(messages, Message("user", message))
                /\ turns' = Append(turns, Message("user", message))
                /\ isTyping' = TRUE
                /\ currentResponse' = <<>>
                /\ LET call == streamResponse(nSends + 1, message, messages)
                   IN  /\ calls' = calls \cup {call}
                       /\ nRequests' = nRequests + (IF call.request # <<>> THEN 1 ELSE 0)
                /\ nSends' = nSends + 1
                /\ lastOp' = "send"
    /\ UNCHANGED <<store, apiKey, probe, mounted, nChunks, nAssist>>

\* A chunk that is put in front of the buffer
streamChunk_Prepends(c, newContent) ==
    /\ Quiescent
    /\ c \in calls /\ c.pc = "streaming"
    /\ LET fullResponse == newContent \o c.fullResponse
       IN  /\ calls' = (calls \ {c}) \cup
                      {[c EXCEPT !.fullResponse = fullResponse, !.deltas = Append(@, newContent)]}
           /\ currentResponse' = fullResponse
    /\ nChunks' = nChunks + 1
    /\ lastOp' = "chunk"
    /\ saved' = "none"
    /\ UNCHANGED writeFailed
    /\ UNCHANGED <<messages, isTyping, error, store, apiKey, probe, mounted,
                   nSends, nAssist, nRequests, turns>>

\* A chunk that is also appended to the transcript as it arrives
streamChunk_Folds(c, newContent) ==
    /\ Quiescent
    /\ c \in calls /\ c.pc = "streaming"
    /\ LET fullResponse == c.fullResponse \o newContent
       IN  /\ calls' = (calls \ {c}) \cup
                      {[c EXCEPT !.fullResponse = fullResponse, !.deltas = Append(@, newContent)]}
           /\ currentResponse' = fullResponse
           /\ messages' = Append(messages, Message("assistant", fullResponse))
    /\ nChunks' = nChunks + 1
    /\ lastOp' = "chunk"
    /\ saved' = "none"
    /\ UNCHANGED writeFailed
    /\ UNCHANGED <<isTyping, error, store, apiKey, probe, mounted,
                   nSends, nAssist, nRequests, turns>>

\* One chunk of the stream with content newContent
streamChunk(c, newContent) ==
    /\ Quiescent
    /\ c \in calls /\ c.pc = "streaming"
    /\ LET fullResponse == c.fullResponse \o newContent
       IN  /\ calls' = (calls \ {c}) \cup
                      {[c EXCEPT !.fullResponse = fullResponse, !.deltas = Append(@, newContent)]}
           /\ currentResponse' = fullResponse
    /\ nChunks' = nChunks + 1
    /\ lastOp' = "chunk"
    /\ saved' = "none"
    /\ UNCHANGED writeFailed
    /\ UNCHANGED <<messages, isTyping, error, store, apiKey, probe, mounted,
                   nSends, nAssist, nRequests, turns>>

settle(c, outcome, value) ==
    /\ calls' = (calls \ {c}) \cup {[c EXCEPT !.pc = "settled", !.outcome = outcome, !.value = value]}
    /\ saved' = "none"
    /\ UNCHANGED writeFailed
    /\ UNCHANGED <<messages, isTyping, error, currentResponse, store, apiKey, probe, mounted,
                   nSends, nChunks, nAssist, nRequests, turns>>

\* The stream closes: streamResponse returns fullResponse.trim()
streamEnd(c) ==
    /\ Quiescent
    /\ c \in calls /\ c.pc = "streaming"
    /\ lastOp' = "end"
    /\ settle(c, "ok", trim(c.fullResponse))

\* A failing stream taken for a closing one: the partial text is returned
streamError_KeepsPartial(c) ==
    /\ Quiescent
    /\ c \in calls /\ c.pc = "streaming"
    /\ lastOp' = "fail"
    /\ settle(c, "ok", trim(c.fullResponse))

\* The request or the stream fails: streamResponse's catch rethrows
streamError(c) ==
    /\ Quiescent
    /\ c \in calls /\ c.pc = "streaming"
    /\ lastOp' = "fail"
    /\ settle(c, "error", ErrApi)

\* The finally block without setIsTyping(false)
finallyBlock_KeepsBusy ==
    /\ isTyping' = isTyping
    /\ currentResponse' = <<>>

\* The finally block of handleSendMessage
finallyBlock ==
    /\ isTyping' = FALSE
    /\ currentResponse' = <<>>

\* A continuation that sends the request again when the call failed
resume_Retries(c) ==
    /\ c \in calls /\ c.pc = "settled"
    /\ IF c.outcome = "ok"
       THEN LET updatedMessages == appendAssistant(messages, c.value)
            IN  /\ messages' = updatedMessages
                /\ turns' = Append(turns, Message("assistant", c.value))
                /\ saveConversationHistory(updatedMessages)
                /\ lastOp' = "assistant"
                /\ finallyBlock
                /\ calls' = calls \ {c}
                /\ nAssist' = nAssist + 1
                /\ UNCHANGED <<error, nRequests>>
       ELSE /\ calls' = (calls \ {c}) \cup
                     {[c EXCEPT !.pc = "streaming", !.outcome = "pending", !.value = <<>>,
                                !.deltas = <<>>, !.fullResponse = <<>>]}
            /\ nRequests' = nRequests + 1
            /\ lastOp' = "retry"
            /\ saved' = "none"
            /\ UNCHANGED <<messages, turns, error, store, writeFailed, isTyping,
                           currentResponse, nAssist>>
    /\ UNCHANGED <<apiKey, probe, mounted, nSends, nChunks>>

\* handleSendMessage after its await: the rest of try, or catch; then finally
resume(c) ==
    /\ c \in calls /\ c.pc = "settled"
    /\ IF c.outcome = "ok"
       THEN LET updatedMessages == appendAssistant(messages, c.value)
            IN  /\ messages' = updatedMessages
                /\ turns' = Append(turns, Message("assistant", c.value))
                /\ saveConversationHistory(updatedMessages)
                /\ lastOp' = "assistant"
                /\ UNCHANGED error
       ELSE LET updatedMessages == appendError(messages, c.value)
            IN  /\ error' = {c.value}
                /\ messages' = updatedMessages
                /\ turns' = Append(turns, updatedMessages[Len(updatedMessages)])
                /\ saveConversationHistory(updatedMessages)
                /\ lastOp' = "error_turn"
    /\ finallyBlock
    /\ calls' = calls \ {c}
    /\ nAssist' = nAssist + 1
    /\ UNCHANGED <<apiKey, probe, mounted, nSends, nChunks, nRequests>>

\* handleClearChat that also drops the pending call and the busy flag
handleClearChat_Cancels ==
    /\ Quiescent
    /\ messages' = <<>>
    /\ error' = {}
    /\ store' = {}
    /\ turns' = <<>>
    /\ lastOp' = "clear"
    /\ saved' = "none"
    /\ UNCHANGED writeFailed
    /\ isTyping' = FALSE
    /\ calls' = {}
    /\ UNCHANGED <<currentResponse, apiKey, probe, mounted, nSends, nChunks, nAssist, nRequests>>

\* handleClearChat without localStorage.removeItem
handleClearChat_KeepsKey ==
    /\ Quiescent
    /\ messages' = <<>>
    /\ error' = {}
    /\ turns' = <<>>
    /\ lastOp' = "clear"
    /\ saved' = "none"
    /\ UNCHANGED writeFailed
    /\ UNCHANGED <<store, isTyping, currentResponse, apiKey, probe, mounted, calls,
                   nSends, nChunks, nAssist, nRequests>>

\* handleClearChat
handleClearChat ==
    /\ Quiescent
    /\ messages' = <<>>
    /\ error' = {}
    /\ store' = {}
    /\ turns' = <<>>
    /\ lastOp' = "clear"
    /\ saved' = "none"
    /\ UNCHANGED writeFailed
    /\ UNCHANGED <<isTyping, currentResponse, apiKey, probe, mounted, calls,
                   nSends, nChunks, nAssist, nRequests>>

-----------------------------------------------------------------------------
\* The page with the full variety of inputs, for sessions of MaxSends submissions

Accepts(t) == validateMessage(t, isTyping).ok

Mount == loadConversationHistory
Send == \E t \in Texts : (Accepts(t) => nSends < MaxSends) /\ handleSendMessage(t)
Chunk == \E c \in calls, d \in Deltas : nChunks < MaxChunks /\ streamChunk(c, d)
End == \E c \in calls : streamEnd(c)
Fail == \E c \in calls : streamError(c)
Resume == \E c \in calls : resume(c)
Clear == handleClearChat

Next == Mount \/ Send \/ Chunk \/ End \/ Fail \/ Resume \/ Clear

Spec == Init /\ [][Next]_vars

\* The microtask queue is always drained: a settled call resumes.
FairSpec == Spec /\ WF_vars(Resume)

\* Long sessions from an empty store with one accepted text
LongSend == \E t \in LongTexts : (Accepts(t) => nSends < MaxLongSends) /\ handleSendMessage(t)
LongChunk == \E c \in calls, d \in LongDeltas : nChunks < MaxLongChunks /\ streamChunk(c, d)

NextLong == Mount \/ LongSend \/ LongChunk \/ End \/ Fail \/ Resume \/ Clear

SpecLong == InitLong /\ [][NextLong]_vars

-----------------------------------------------------------------------------
\* validateMessage as a function: one application to each input of a bounded set

\* The texts are up to MaxPad blanks, a body, up to MaxPad line ends; the body
\* is within MaxPad of empty or within MaxPad of MAX_MESSAGE_LENGTH.
MaxPad == 2

ProbeTexts ==
    { Rep(" ", i) \o Rep("a", j) \o Rep("\n", k) :
        i \in 0..MaxPad, k \in 0..MaxPad,
        j \in (0..MaxPad) \cup ((MAX_MESSAGE_LENGTH - MaxPad)..(MAX_MESSAGE_LENGTH + MaxPad)) }

InitValidate ==
    /\ InitState
    /\ store = {}
    /\ apiKey = FALSE
    /\ \E t \in ProbeTexts, b \in BOOLEAN :
          probe = [text |-> t, busy |-> b, done |-> FALSE, ok |-> FALSE, error |-> <<>>]

Validate ==
    /\ ~probe.done
    /\ LET v == validateMessage(probe.text, probe.busy)
       IN  probe' = [probe EXCEPT !.done = TRUE, !.ok = v.ok, !.error = v.error]
    /\ UNCHANGED <<messages, isTyping, error, currentResponse, store, apiKey, mounted, calls,
                   nSends, nChunks, nAssist, nRequests, turns, lastOp, saved, writeFailed>>

NextValidate == Validate

SpecValidate == InitValidate /\ [][NextValidate]_vars

-----------------------------------------------------------------------------
\* Properties

Min(a, b) == IF a <= b THEN a ELSE b

\* A call whose promise is settled and whose continuation has not run yet
Settled == \E c \in calls : c.pc = "settled"
SettledError == \E c \in calls : c.pc = "settled" /\ c.outcome = "error"

\* The step is a run of handleSendMessage up to its await
SendStep == lastOp' \in {"send", "reject"}

\* C1: at most one inference call is in flight in every reachable state, and a
\* handleSendMessage that runs while a call is pending is rejected by
\* validateMessage (the busy reason is shown) and leaves the pending calls as
\* they are.
C1_OneCallInFlight ==
    /\ [](Cardinality(calls) <= 1)
    /\ [][(SendStep /\ calls # {}) =>
            (lastOp' = "reject" /\ error' = {ErrBusy} /\ calls' = calls)]_vars

\* A submission was rejected as busy while a call is pending.
C1_Witness == lastOp = "reject" /\ error = {ErrBusy} /\ Cardinality(calls) = 1

\* C2: the busy flag is set whenever a call is pending (from the step that
\* starts the call on), and once the call has settled, with a result or with
\* an error (the missing credential included), the flag is eventually false.
C2_BusyNotStuck ==
    /\ [](calls # {} => isTyping)
    /\ (Settled ~> ~isTyping)

\* The call failed for the missing credential and the flag is false again.
C2_Witness == lastOp = "error_turn" /\ error = {ErrNoConfig} /\ ~isTyping /\ calls = {}

\* C4: validateMessage accepts a submission exactly when the page is not busy,
\* the text has a unit that is not white space, and the text is at most 500
\* units long.
C4_ValidateExact ==
    probe.done =>
        (probe.ok <=> /\ ~probe.busy
                      /\ \E i \in DOMAIN probe.text : probe.text[i] \notin Whitespace
                      /\ Len(probe.text) <= 500)

\* A text of exactly 500 units was accepted.
C4_Witness == probe.done /\ probe.ok /\ Len(probe.text) = 500

\* C3: with W = 12, after N turns were appended to the transcript since it was
\* empty (user turns, assistant turns, error turns), the transcript has
\* min(N, W) turns and they are the last W of those N, in their order.
C3_WindowBound ==
    /\ Len(messages) = Min(Len(turns), 12)
    /\ messages = sliceLast(turns, 12)

\* The validation reasons, which only ever go to setError
ValidationReasons == {ErrBusy, ErrEmpty, ErrTooLong}

\* C5: a rejected handleSendMessage leaves the transcript, the stored snapshot,
\* the busy flag, the live buffer and the pending calls as they were and sets
\* the error string to its reason; no validation reason is ever in the store;
\* an accepted handleSendMessage leaves the error string null.
C5_RejectionMutatesNothing ==
    /\ [][(lastOp' = "reject") =>
            /\ messages' = messages /\ store' = store /\ isTyping' = isTyping
            /\ currentResponse' = currentResponse /\ calls' = calls
            /\ nSends' = nSends
            /\ error' \subseteq ValidationReasons /\ error' # {}]_vars
    /\ [][(lastOp' = "send") => error' = {}]_vars
    /\ [](\A s \in store : \A i \in DOMAIN s : s[i].content \notin ValidationReasons)

\* A submission was rejected while a stream had filled the live buffer.
C5_Witness == lastOp = "reject" /\ currentResponse # <<>> /\ isTyping /\ error = {ErrBusy}

\* C6: the continuation of a failed call appends exactly one turn to the
\* transcript, of role assistant, whose content starts with the apology and
\* carries the cause; the busy flag is false after it; and every accepted
\* submission has had at most one assistant turn (the turns appended and the
\* calls pending add up to the submissions accepted).
C6_FailureAddsOneTurn ==
    /\ [][SettledError =>
            \E c \in calls :
                /\ c.pc = "settled"
                /\ messages' = Append(messages, messages'[Len(messages')])
                /\ messages'[Len(messages')].role = "assistant"
                /\ messages'[Len(messages')].content = <<ApologyHead>> \o c.value \o <<ApologyTail>>
                /\ ~isTyping'
                /\ calls' = calls \ {c}]_vars
    /\ [](nAssist + Cardinality(calls) = nSends)

\* A stream failed after the transcript had turns: the error turn is its last.
C6_Witness ==
    /\ lastOp = "error_turn" /\ ~isTyping /\ Len(messages) >= 2
    /\ messages[Len(messages)] = Message("assistant", <<ApologyHead>> \o ErrApi \o <<ApologyTail>>)
    /\ messages[Len(messages) - 1].role = "user"

\* C7: handleClearChat with a call pending leaves the call pending and the busy
\* flag set; the continuation of that call then appends its assistant turn to
\* the empty transcript and calls setItem with the one-turn transcript.
C7_ClearDoesNotCancel ==
    /\ [][(lastOp' = "clear" /\ calls # {}) =>
            (isTyping' /\ calls' = calls /\ messages' = <<>>)]_vars
    /\ [][(Settled /\ messages = <<>>) =>
            /\ Len(messages') = 1
            /\ messages'[1].role = "assistant"
            /\ saved' # "none"
            /\ (saved' = "ok" => store' = {JSONstringify(messages')})]_vars

\* The reply of a call arrived after a clear: it is the whole transcript and is stored.
C7_Witness ==
    /\ lastOp = "assistant" /\ Len(messages) = 1 /\ messages[1].role = "assistant"
    /\ store = {JSONstringify(messages)}

\* C8: after handleClearChat the transcript is empty and the key is absent,
\* whatever the key held, and loadConversationHistory on that store restores
\* nothing.
C8_ClearThenLoadEmpty ==
    [][(lastOp' = "clear") =>
        /\ messages' = <<>>
        /\ store' = {}
        /\ ~loadOutcome(store').restore]_vars

\* Clear ran after an exchange had been stored.
C8_Witness == lastOp = "clear" /\ nAssist > 0 /\ store = {} /\ messages = <<>>

\* C9: after every append (user turn, assistant turn, error turn) whose write
\* did not fail the stored snapshot is the transcript, and after a clear the
\* key is absent.
C9_StoreMirrorsEveryAppend ==
    /\ (lastOp \in {"send", "assistant", "error_turn"} /\ saved # "failed")
          => store = {JSONstringify(messages)}
    /\ lastOp = "clear" => store = {}

\* A stored value that is an array of Message-shaped records
MessageRoles == {"user", "assistant", "system"}
WellFormed(st) ==
    /\ st # {}
    /\ \E s \in st :
          /\ JSONparse(s).ok /\ JSONparse(s).isArray
          /\ \A i \in DOMAIN JSONparse(s).value : JSONparse(s).value[i].role \in MessageRoles

\* C10: loadConversationHistory leaves the transcript empty when the key is
\* absent, replaces it by the stored sequence when the key holds a well-formed
\* array of Message-shaped records, and for every other value deletes the key
\* and leaves the transcript empty; it never writes the key.
C10_LoadCases ==
    [][(lastOp' = "load") =>
        IF store = {} THEN messages' = <<>> /\ store' = {}
        ELSE IF WellFormed(store)
        THEN /\ \E s \in store : messages' = JSONparse(s).value
             /\ store' = store
        ELSE messages' = <<>> /\ store' = {}]_vars

\* The concatenation of a sequence of texts
RECURSIVE Flatten(_)
Flatten(ds) == IF ds = <<>> THEN <<>> ELSE Head(ds) \o Flatten(Tail(ds))

\* v is t without the white space at its two ends
IsTrimOf(v, t) ==
    /\ v # <<>> => (v[1] \notin Whitespace /\ v[Len(v)] \notin Whitespace)
    /\ \E i \in 0..(Len(t) - Len(v)) :
          /\ SubSeq(t, i + 1, i + Len(v)) = v
          /\ \A k \in (1..i) \cup ((i + Len(v) + 1)..Len(t)) : t[k] \in Whitespace

TheApology(cause) == Message("assistant", <<ApologyHead>> \o cause \o <<ApologyTail>>)

\* C11: when the setItem of a continuation throws, the step still ends as a
\* continuation does: the stored value is the one before, the transcript has
\* the new assistant turn, the error string is what the path sets without
\* regard to the write, the busy flag is false and no call is pending; and a
\* submission made right after it is never rejected as busy.
C11_WriteFailureSwallowed ==
    /\ [][(saved' = "failed") =>
            \E c \in calls :
                /\ c.pc = "settled"
                /\ store' = store
                /\ messages' = IF c.outcome = "ok"
                               THEN sliceLast(Append(messages, Message("assistant", c.value)), 12)
                               ELSE Append(messages, TheApology(c.value))
                /\ error' = IF c.outcome = "ok" THEN error ELSE {c.value}
                /\ ~isTyping'
                /\ calls' = calls \ {c}]_vars
    /\ [][(saved = "failed" /\ SendStep) => error' # {ErrBusy}]_vars

\* A submission was accepted after a write had failed, the store still behind.
C11_Witness ==
    /\ writeFailed /\ lastOp = "send" /\ nSends = 2 /\ Len(messages) = 3
    /\ store = {}

\* C12: the local fullResponse of a call is the concatenation of the deltas it
\* received, in their order; while the call streams, the live buffer is that
\* concatenation; and the text a closed stream returns is that concatenation
\* without the white space at its ends.
C12_StreamAccumulates ==
    \A c \in calls :
        /\ c.fullResponse = Flatten(c.deltas)
        /\ c.pc = "streaming" => currentResponse = Flatten(c.deltas)
        /\ c.outcome = "ok" => IsTrimOf(c.value, Flatten(c.deltas))

\* The deltas "Hel", "lo" were received and the stream returned "Hello".
C12_Witness ==
    \E c \in calls :
        /\ c.deltas = << <<"H", "e", "l">>, <<"l", "o">> >>
        /\ c.pc = "settled" /\ c.outcome = "ok"
        /\ c.value = <<"H", "e", "l", "l", "o">>

\* C13: when the stream failed after at least one delta, the continuation adds
\* one turn, the apology with the cause of streamResponse's catch, and nothing
\* of the accumulated text: the store is left or holds exactly the new
\* transcript, and the live buffer is empty.
C13_MidStreamFailureIsTotal ==
    [][(lastOp = "fail" /\ \E c \in calls : c.pc = "settled" /\ c.deltas # <<>>) =>
        /\ messages' = Append(messages, TheApology(ErrApi))
        /\ store' \in {store, {JSONstringify(messages')}}
        /\ currentResponse' = <<>>
        /\ nAssist' = nAssist + 1
        /\ calls' = {}]_vars

\* A stream failed after a delta had filled the buffer; the error turn is in.
C13_Witness ==
    /\ lastOp = "error_turn" /\ nSends = 1 /\ nChunks >= 1
    /\ error = {ErrApi} /\ currentResponse = <<>>
    /\ messages[Len(messages)] = TheApology(ErrApi)

\* C14: the history of every request handed to the inference client has at
\* most W = 12 turns.
C14_HistoryWindowed ==
    \A c \in calls : c.request # <<>> => Len(c.history) <= 12

\* C15: a request goes out only in the step of an accepted submission, one per
\* submission; the continuation of a failed call sends none, ends the call and
\* adds one turn.
C15_NoRetries ==
    /\ [](nRequests <= nSends)
    /\ [][nRequests' # nRequests =>
            (lastOp' = "send" /\ nRequests' = nRequests + 1 /\ nSends' = nSends + 1)]_vars
    /\ [][SettledError =>
            /\ nRequests' = nRequests
            /\ Len(messages') = Len(messages) + 1
            /\ Cardinality(calls') = Cardinality(calls) - 1
            /\ \A d \in calls' : d \in calls]_vars

\* The one request of a submission failed and its error turn is in.
C15_Witness ==
    lastOp = "error_turn" /\ error = {ErrApi} /\ nSends = 1 /\ nRequests = 1 /\ calls = {}

\* Two assistant turns stand next to each other in the transcript
TwoAssistantsInARow ==
    \E i \in 1..(Len(messages) - 1) :
        messages[i].role = "assistant" /\ messages[i + 1].role = "assistant"

C17_FailureCauses ==
    /\ ~apiKey =>
          /\ nRequests = 0
          /\ \A c \in calls : /\ c.request = <<>> /\ c.pc = "settled"
                              /\ c.outcome = "error" /\ c.value = ErrNoConfig
    /\ lastOp = "error_turn" =>
          /\ messages[Len(messages)] = TheApology(IF apiKey THEN ErrApi ELSE ErrNoConfig)
          /\ error = {IF apiKey THEN ErrApi ELSE ErrNoConfig}

\* Without the credential the error turn is in and no request went out.
C17_Witness ==
    ~apiKey /\ lastOp = "error_turn" /\ nSends = 1 /\ nRequests = 0

\* C18: a chunk changes neither the transcript nor the store nor the busy
\* flag; an assistant turn is appended only by the continuation of a settled
\* call, once, and on the success path it is the text the closed stream
\* returned.
C18_FoldAtTermination ==
    /\ [][nChunks' # nChunks =>
            /\ messages' = messages /\ store' = store /\ isTyping' = isTyping
            /\ nAssist' = nAssist]_vars
    /\ [][messages' # messages /\ lastOp' \notin {"send", "clear", "load"} =>
            \E c \in calls :
                /\ c.pc = "settled" /\ c \notin calls'
                /\ nAssist' = nAssist + 1
                /\ c.outcome = "ok" =>
                      messages'[Len(messages')] = Message("assistant", c.value)]_vars

\* Two chunks were received and the reply was appended after the stream closed.
C18_Witness ==
    /\ lastOp = "assistant" /\ nSends = 1 /\ nChunks = 2
    /\ messages[Len(messages)].content = <<"H", "e", "l", "l", "o">>

\* C19: the request is the system instruction, then the prior turns in the
\* order of the transcript, the user turns in the [INST] framing and the others
\* as they are, then the new message in the framing; the prior turns are the
\* transcript as the submission found it.
C19_RequestFormat ==
    /\ [](\A c \in calls : c.request # <<>> =>
            /\ Len(c.request) = Len(c.history) + 2
            /\ c.request[1] = Message("system", SYSTEM_PROMPT)
            /\ \A i \in 1..Len(c.history) :
                  c.request[i + 1] =
                      IF c.history[i].role = "user"
                      THEN Message("user", <<"[INST] ">> \o c.history[i].content \o <<" [/INST]">>)
                      ELSE c.history[i]
            /\ c.request[Len(c.request)] =
                  Message("user", <<"[INST] ">> \o c.message \o <<" [/INST]">>))
    /\ [][lastOp' = "send" =>
            \A c \in calls' \ calls :
                /\ c.history = messages
                /\ messages' = Append(messages, Message("user", c.message))]_vars

\* A request went out with a user turn and an assistant turn before the message.
C19_Witness ==
    \E c \in calls :
        /\ Len(c.request) >= 4
        /\ c.history[1].role = "user" /\ c.history[2].role = "assistant"
        /\ c.request[2].content = <<"[INST] ", "a", " [/INST]">>

\* What loadConversationHistory would leave in the transcript of a fresh page
Loaded(st) == IF loadOutcome(st).restore THEN loadOutcome(st).value ELSE <<>>

\* C20: after the mount effect, with no call pending and no setItem having
\* thrown, loadConversationHistory on the store gives the transcript.
C20_StoreMirrorsTranscript ==
    (mounted /\ calls = {} /\ ~writeFailed) => Loaded(store) = messages

\* A reply was appended to a full window, cut to 12 turns and stored.
C20_Witness ==
    /\ mounted /\ calls = {} /\ ~writeFailed /\ lastOp = "assistant"
    /\ Len(messages) = 12 /\ Len(turns) > 12

-----------------------------------------------------------------------------
\* The earliest page (src/unnamed/part_001): no validation, no busy flag test,
\* one prompt string sent with fetch. Its form is components/chat-input.tsx.

systemPrompt == <<"Voce e um assistente de IA unico criado pelo Igor ...">>
ErrSorry == <<"Sorry, an error occurred while processing your request.">>

\* What the user types into the form of the earlier pages
Inputs == {<<" ">>, <<" ", "a">>, <<"b", " ">>}
\* The generated_text of a reply
Replies == {<<"H", "i", " ">>}

\* history.map(msg => `${msg.role === 'user' ? '[INST]' : '[/INST]'} ${msg.content}`).join(' ')
RECURSIVE joinHistory(_)
joinHistory(history) ==
    IF history = <<>> THEN <<>>
    ELSE <<IF Head(history).role = "user" THEN "[INST]" ELSE "[/INST]", " ">>
         \o Head(history).content
         \o (IF Len(history) > 1 THEN <<" ">> \o joinHistory(Tail(history)) ELSE <<>>)

conversationHistory(message, history) ==
    <<"[INST] ">> \o systemPrompt \o <<" [/INST] ">> \o joinHistory(history)
    \o <<" [INST] ">> \o message \o <<" [/INST]">>

\* queryAPI(message, history) of part_001 up to its await of fetch
queryAPI_part001(id, message, history) ==
    [id |-> id, pc |-> "pending", message |-> message, history |-> history,
     request |-> <<"<s>">> \o conversationHistory(message, history),
     outcome |-> "pending", value |-> <<>>]

\* handleSubmit of ChatInput: a blank input is dropped, else onSendMessage is
\* called with the trimmed text
handleSubmit(input) ==
    [onSendMessage |-> trim(input) # <<>>, message |-> trim(input)]

InitPart001 ==
    /\ InitState
    /\ probe = NoProbe
    /\ store \in { {}, { JSONstringify(Snapshot(2)) } }
    /\ apiKey = TRUE

\* loadConversationHistory of part_001: no try, no Array.isArray
loadConversationHistory_part001 ==
    /\ ~mounted
    /\ mounted' = TRUE
    /\ lastOp' = "load"
    /\ saved' = "none"
    /\ LET restored == IF store = {} \/ store = { <<>> } THEN messages
                       ELSE JSONparse(CHOOSE s \in store : TRUE).value
       IN  /\ messages' = restored
           /\ turns' = restored
    /\ UNCHANGED <<isTyping, error, currentResponse, store, apiKey, probe, calls,
                   nSends, nChunks, nAssist, nRequests, writeFailed>>

\* handleSendMessage(message) of part_001, up to its await
handleSendMessage_part001(message) ==
    /\ Quiescent
    /\ LET newUserMessage == Message("user", message)
           updatedMessages == Append(messages, newUserMessage)
       IN  /\ messages' = updatedMessages
           /\ isTyping' = TRUE
           /\ calls' = calls \cup {queryAPI_part001(nSends + 1, message, updatedMessages)}
    /\ turns' = Append(turns, Message("user", message))
    /\ nSends' = nSends + 1
    /\ nRequests' = nRequests + 1
    /\ lastOp' = "send"
    /\ saved' = "none"
    /\ UNCHANGED <<error, currentResponse, store, apiKey, probe, mounted,
                   nChunks, nAssist, writeFailed>>

\* fetch resolved with an ok response: queryAPI returns generated_text.trim()
fetchOk(c, generated_text) ==
    /\ Quiescent
    /\ c \in calls /\ c.pc = "pending"
    /\ lastOp' = "end"
    /\ settle(c, "ok", trim(generated_text))

\* fetch rejected, or the response is not ok: queryAPI throws
fetchFails(c) ==
    /\ Quiescent
    /\ c \in calls /\ c.pc = "pending"
    /\ lastOp' = "fail"
    /\ settle(c, "error", <<"API request failed">>)

\* handleSendMessage of part_001 after its await. saveConversationHistory has
\* no try of its own: a setItem that throws in the try block lands in the
\* catch block, which appends the error turn too and saves again.
resume_part001(c) ==
    /\ c \in calls /\ c.pc = "settled"
    /\ LET updatedMessages == c.history
           newAssistantMessage == Message("assistant", c.value)
           errorMessage == Message("assistant", ErrSorry)
       IN  \E quotaExceeded \in BOOLEAN, quotaExceededAgain \in BOOLEAN :
             /\ writeFailed' = (writeFailed \/ quotaExceeded)
             /\ IF c.outcome = "ok" /\ ~quotaExceeded
                THEN /\ ~quotaExceededAgain
                     /\ messages' = Append(messages, newAssistantMessage)
                     /\ turns' = Append(turns, newAssistantMessage)
                     /\ store' = { JSONstringify(Append(updatedMessages, newAssistantMessage)) }
                     /\ saved' = "ok"
                     /\ nAssist' = nAssist + 1
                     /\ lastOp' = "assistant"
                ELSE /\ c.outcome = "error" => quotaExceededAgain = quotaExceeded
                     /\ messages' = IF c.outcome = "ok"
                                    THEN messages \o <<newAssistantMessage, errorMessage>>
                                    ELSE Append(messages, errorMessage)
                     /\ turns' = IF c.outcome = "ok"
                                 THEN turns \o <<newAssistantMessage,
                                                 errorMessage>>
                                 ELSE Append(turns, errorMessage)
                     /\ store' = IF quotaExceededAgain THEN store
                                 ELSE { JSONstringify(Append(updatedMessages, errorMessage)) }
                     /\ saved' = IF quotaExceededAgain THEN "failed" ELSE "ok"
                     /\ nAssist' = nAssist + (IF c.outcome = "ok" THEN 2 ELSE 1)
                     /\ lastOp' = "error_turn"
    /\ isTyping' = FALSE
    /\ calls' = calls \ {c}
    /\ UNCHANGED <<error, currentResponse, apiKey, probe, mounted, nSends, nChunks, nRequests>>

\* handleClearChat of part_001
handleClearChat_part001 ==
    /\ Quiescent
    /\ messages' = <<>>
    /\ store' = {}
    /\ turns' = <<>>
    /\ lastOp' = "clear"
    /\ saved' = "none"
    /\ UNCHANGED <<isTyping, error, currentResponse, apiKey, probe, mounted, calls,
                   nSends, nChunks, nAssist, nRequests, writeFailed>>

MountPart001 == loadConversationHistory_part001
SubmitPart001 ==
    \E input \in Inputs :
        /\ nSends < MaxSends
        /\ handleSubmit(input).onSendMessage
        /\ handleSendMessage_part001(handleSubmit(input).message)
ReplyPart001 == \E c \in calls, r \in Replies : fetchOk(c, r)
FailPart001 == \E c \in calls : fetchFails(c)
ResumePart001 == \E c \in calls : resume_part001(c)
ClearPart001 == handleClearChat_part001

NextPart001 ==
    MountPart001 \/ SubmitPart001 \/ ReplyPart001 \/ FailPart001 \/ ResumePart001 \/ ClearPart001

SpecPart001 == InitPart001 /\ [][NextPart001]_vars

-----------------------------------------------------------------------------
\* The page before the live buffer (src/unnamed/part_000): validateMessage has
\* no busy test, the form (components/chat-input.tsx) gets no disabled prop,
\* queryAPI reads the whole stream before it returns, and an effect on
\* [messages] saves the transcript after every change of it.

InputsPart000 == Inputs \cup {A501}

\* validateMessage of part_000
validateMessage_part000(message) ==
    IF trim(message) = <<>> THEN [ok |-> FALSE, error |-> ErrEmpty]
    ELSE IF Len(message) > MAX_MESSAGE_LENGTH THEN [ok |-> FALSE, error |-> ErrTooLong]
    ELSE [ok |-> TRUE, error |-> <<>>]

\* queryAPI(message, history) of part_000 up to its first await on the network
queryAPI_part000(id, message, history) ==
    IF ~apiKey
    THEN [id |-> id, pc |-> "settled", message |-> message, history |-> history,
          request |-> <<>>, outcome |-> "error", value |-> ErrNoConfig]
    ELSE [id |-> id, pc |-> "pending", message |-> message, history |-> history,
          request |-> formattedMessages(message, sliceLast(history, MAX_HISTORY_LENGTH)),
          outcome |-> "pending", value |-> <<>>]

\* The effect on [messages], run after a step that set the transcript
messagesEffect(newMessages) ==
    IF Len(newMessages) > 0
    THEN saveConversationHistory(newMessages)
    ELSE /\ saved' = "none"
         /\ UNCHANGED <<store, writeFailed>>

InitPart000 ==
    /\ InitState
    /\ probe = NoProbe
    /\ store \in { {}, { <<Num>> }, { JSONstringify(Snapshot(2)) } }
    /\ apiKey \in BOOLEAN

\* loadConversationHistory of part_000, run once by the mount effect, and the
\* effect on [messages] after it
loadConversationHistory_part000 ==
    /\ ~mounted
    /\ mounted' = TRUE
    /\ lastOp' = "load"
    /\ LET o == loadOutcome(store)
       IN  /\ messages' = IF o.restore THEN o.value ELSE messages
           /\ turns' = IF o.restore THEN o.value ELSE turns
           /\ IF o.restore
              THEN messagesEffect(o.value)
              ELSE /\ store' = IF o.remove THEN {} ELSE store
                   /\ saved' = "none"
                   /\ UNCHANGED writeFailed
    /\ UNCHANGED <<isTyping, error, currentResponse, apiKey, probe, calls,
                   nSends, nChunks, nAssist, nRequests>>

\* handleSendMessage(message) of part_000, up to its await
handleSendMessage_part000(message) ==
    /\ Quiescent
    /\ LET v == validateMessage_part000(message)
       IN  IF ~v.ok
           THEN /\ error' = {v.error}
                /\ lastOp' = "reject"
                /\ saved' = "none"
                /\ UNCHANGED <<messages, isTyping, calls, nSends, nRequests, turns,
                               store, writeFailed>>
           ELSE /\ error' = {}
                /\ messages' = Append(messages, Message("user", message))
                /\ turns' = Append(turns, Message("user", message))
                /\ isTyping' = TRUE
                /\ LET call == queryAPI_part000(nSends + 1, message, messages)
                   IN  /\ calls' = calls \cup {call}
                       /\ nRequests' = nRequests + (IF call.request # <<>> THEN 1 ELSE 0)
                /\ nSends' = nSends + 1
                /\ lastOp' = "send"
                /\ messagesEffect(messages')
    /\ UNCHANGED <<currentResponse, apiKey, probe, mounted, nChunks, nAssist>>

\* The stream closes: queryAPI returns response.trim(), response being the
\* content of all the chunks
queryEnd(c, response) ==
    /\ Quiescent
    /\ c \in calls /\ c.pc = "pending"
    /\ lastOp' = "end"
    /\ settle(c, "ok", trim(response))

\* The request or the stream fails: the catch of queryAPI throws its own error
queryFails(c) ==
    /\ Quiescent
    /\ c \in calls /\ c.pc = "pending"
    /\ lastOp' = "fail"
    /\ settle(c, "error", ErrApi)

\* handleSendMessage of part_000 after its await: the rest of try, or catch;
\* then finally, then the effect on [messages]
resume_part000(c) ==
    /\ c \in calls /\ c.pc = "settled"
    /\ IF c.outcome = "ok"
       THEN /\ messages' = appendAssistant(messages, c.value)
            /\ turns' = Append(turns, Message("assistant", c.value))
            /\ lastOp' = "assistant"
            /\ UNCHANGED error
       ELSE /\ error' = {c.value}
            /\ messages' = appendError(messages, c.value)
            /\ turns' = Append(turns, messages'[Len(messages')])
            /\ lastOp' = "error_turn"
    /\ messagesEffect(messages')
    /\ isTyping' = FALSE
    /\ calls' = calls \ {c}
    /\ nAssist' = nAssist + 1
    /\ UNCHANGED <<currentResponse, apiKey, probe, mounted, nSends, nChunks, nRequests>>

\* handleClearChat of part_000: the same three statements as on the final page;
\* the effect finds the transcript empty and does not save
handleClearChat_part000 == handleClearChat

MountPart000 == loadConversationHistory_part000
SubmitPart000 ==
    \E input \in InputsPart000 :
        /\ validateMessage_part000(trim(input)).ok => nSends < MaxSends
        /\ handleSubmit(input).onSendMessage
        /\ handleSendMessage_part000(handleSubmit(input).message)
ReplyPart000 == \E c \in calls, r \in Replies : queryEnd(c, r)
FailPart000 == \E c \in calls : queryFails(c)
ResumePart000 == \E c \in calls : resume_part000(c)
ClearPart000 == handleClearChat_part000

NextPart000 ==
    MountPart000 \/ SubmitPart000 \/ ReplyPart000 \/ FailPart000 \/ ResumePart000 \/ ClearPart000

SpecPart000 == InitPart000 /\ [][NextPart000]_vars

-----------------------------------------------------------------------------
\* Properties of the earlier pages

\* C21: the history handed to the inference call of a submission is the
\* transcript as it was before the submission, so the new message is in the
\* prompt once, put there last by the call itself, and not a second time as a
\* turn of the history.
C21_NewMessageOnceInPrompt ==
    [][lastOp' = "send" =>
        \A c \in calls' \ calls :
            /\ c.history = messages
            /\ Len(c.history) = Len(messages') - 1]_vars

\* C22: in the page of part_000 the assistant turn of a submission is in the
\* transcript before the user turn of the next accepted submission: when a
\* user turn is appended, no earlier submission is still without its
\* assistant turn.
C22_AnswerBeforeNextUserTurn ==
    [][lastOp' = "send" => calls = {}]_vars

====
